---------------------------- MODULE Spec2Model ----------------------------
(***************************************************************************)
(* The "hidden" (fog-of-war) game mode of samazing: src/game/hidden.rs.    *)
(*                                                                         *)
(* The state is the session of game(): the borrowed maze (current_ix,      *)
(* goal, rooms), the Visited Set `seen`, the position of the loop (pc),    *)
(* what game() returned (outcome) and what the last frame was painted      *)
(* from (drawn_ix, drawn_seen; render is a function of the maze and the    *)
(* Visited Set, so `frame` below is the frame itself).  The other          *)
(* variables are history variables: they record what happened and no       *)
(* action reads them in a guard or to compute program state.               *)
(*                                                                         *)
(* A grid index is <<x, y>>: x the column (east is x + 1), y the row       *)
(* (south is y + 1), as in render's `200.0 - ROOM_SIZE * ix.y()`.          *)
(* An Option<BoundedIx2> is a sequence of length 0 (None) or 1 (Some).     *)
(***************************************************************************)
EXTENDS Integers, Sequences, FiniteSets

\* Bounds of the model.  N_ROWS and N_COLS are the const generics of game().
N_ROWS == 3
N_COLS == 3
\* The loop of game() is unbounded; the model runs at most MaxTurns turns.
MaxTurns == 5

VARIABLES
  current_ix,   \* maze.current_ix
  goal,         \* maze.goal
  rooms,        \* maze.rooms: cell -> the set of its walled directions
  seen,         \* st.seen
  pc,           \* where game() is: "mark", "render", "check", "read", "returned"
  outcome,      \* what game() returned: "None", "Win", "Quit", "Err"
  drawn_ix,     \* maze.current_ix as the last frame was painted
  drawn_seen,   \* st.seen as the last frame was painted
  prev_drawn_ix,   \* history: drawn_ix of the frame before the last
  prev_drawn_seen, \* history: drawn_seen of the frame before the last
  start,        \* history: maze.current_ix when game() was called
  turn,         \* history: iterations of the loop begun
  renders,      \* history: frames painted
  nreads,       \* history: commands read
  nmoves,       \* history: move_* calls made on the maze
  lastCmd,      \* history: the last command read ("" before the first)
  lastBlocked,  \* history: the last command was a move the maze blocked
  posAtRead,    \* history: maze.current_ix when the last command was read
  seenAtRead,   \* history: st.seen when the last command was read
  rendersSinceRead, \* history: frames painted since the last command was read
  occupied      \* history: the cells current_ix held at the start of a turn

vars == <<current_ix, goal, rooms, seen, pc, outcome, drawn_ix, drawn_seen,
          prev_drawn_ix, prev_drawn_seen, start, turn,
          renders, nreads, nmoves, lastCmd, lastBlocked, posAtRead,
          seenAtRead, rendersSinceRead, occupied>>

Cells == (0 .. N_COLS - 1) \X (0 .. N_ROWS - 1)
Directions == {"North", "South", "East", "West"}
MoveEvents == {"MoveN", "MoveS", "MoveE", "MoveW"}
MazeEvent == MoveEvents \cup {"Quit", "Other"}

----------------------------------------------------------------------------
\* multid::BoundedIx2 neighbours: Some(index) inside the grid, None at the edge.
north(ix) == IF ix[2] > 0 THEN << <<ix[1], ix[2] - 1>> >> ELSE << >>
south(ix) == IF ix[2] < N_ROWS - 1 THEN << <<ix[1], ix[2] + 1>> >> ELSE << >>
east(ix) == IF ix[1] < N_COLS - 1 THEN << <<ix[1] + 1, ix[2]>> >> ELSE << >>
west(ix) == IF ix[1] > 0 THEN << <<ix[1] - 1, ix[2]>> >> ELSE << >>

\* crate::maze::Maze.  A room is the set of directions in which it has a wall;
\* the sides on the grid boundary are walls.
BoundaryWalls(ix) ==
  {d \in Directions :
     \/ d = "North" /\ north(ix) = << >>
     \/ d = "South" /\ south(ix) = << >>
     \/ d = "East" /\ east(ix) = << >>
     \/ d = "West" /\ west(ix) = << >>}

\* A maze without inner walls.
OpenMaze == [ix \in Cells |-> BoundaryWalls(ix)]

\* A serpentine corridor: the rows are joined at alternating ends only.
RowsJoined(x, y) == IF y % 2 = 0 THEN x = N_COLS - 1 ELSE x = 0
SerpentineMaze ==
  [ix \in Cells |->
     BoundaryWalls(ix)
       \cup {d \in {"South"} : south(ix) # << >> /\ ~RowsJoined(ix[1], ix[2])}
       \cup {d \in {"North"} : north(ix) # << >> /\ ~RowsJoined(ix[1], ix[2] - 1)}]

Mazes == {OpenMaze, SerpentineMaze}

\* The positions a session starts at: a corner and an inner cell.
Starts == {<<0, 0>>, <<1, 1>>}

\* Maze::move_*: one step to the neighbour, a no-op when a wall or the
\* boundary blocks it.
step(ix, rms, d, nb) == IF nb # << >> /\ d \notin rms[ix] THEN nb[1] ELSE ix
maze_move_north(ix, rms) == step(ix, rms, "North", north(ix))
maze_move_south(ix, rms) == step(ix, rms, "South", south(ix))
maze_move_east(ix, rms) == step(ix, rms, "East", east(ix))
maze_move_west(ix, rms) == step(ix, rms, "West", west(ix))

\* Maze::is_done: the traversal cursor is on the goal.
maze_is_done(ix, gl) == ix = gl

----------------------------------------------------------------------------
\* HiddenGameState
move_north_calls_south(ix, rms) == maze_move_south(ix, rms)
move_north(ix, rms) == maze_move_north(ix, rms)
move_east_calls_west(ix, rms) == maze_move_west(ix, rms)
move_east(ix, rms) == maze_move_east(ix, rms)
move_south(ix, rms) == maze_move_south(ix, rms)
move_west(ix, rms) == maze_move_west(ix, rms)

insert_current_ix_replacing(s, ix) == {ix}
insert_current_ix_noop(s, ix) == s
insert_current_ix_toggling(s, ix) == IF ix \in s THEN s \ {ix} ELSE s \cup {ix}
insert_current_ix(s, ix) == s \cup {ix}

is_done(ix, gl) == maze_is_done(ix, gl)

is_seen(s, ix) == ix \in s

----------------------------------------------------------------------------
\* HiddenGame::render.  A draw command is a record; the fields a command
\* does not use are empty.
GoalGlyph == "1f945"
WonGlyph == "1f940"
PlayerGlyph == "1f600"

PrintCmd(g) == [op |-> "print", glyph |-> g, room |-> {}, hidden_walls |-> << >>]
RoomViewCmd(r) == [op |-> "RoomView", glyph |-> "", room |-> r, hidden_walls |-> << >>]
UnseenRoomViewCmd(h) ==
  [op |-> "UnseenRoomView", glyph |-> "", room |-> {}, hidden_walls |-> h]

not_seen_or_none_false_at_edge(nb, s) == IF nb = << >> THEN FALSE ELSE ~(nb[1] \in s)
\* ix.d().map(|i| !state.seen.contains(&i)).unwrap_or(true)
not_seen_or_none(nb, s) == IF nb = << >> THEN TRUE ELSE ~(nb[1] \in s)

unseen_west_twice(ix, s) ==
  LET u1 == IF not_seen_or_none(north(ix), s) THEN <<"North">> ELSE << >>
      u2 == IF not_seen_or_none(south(ix), s) THEN Append(u1, "South") ELSE u1
      u3 == IF not_seen_or_none(west(ix), s) THEN Append(u2, "East") ELSE u2
      u4 == IF not_seen_or_none(west(ix), s) THEN Append(u3, "West") ELSE u3
  IN u4
\* The Vec `unseen` of the else branch: the hidden directions of an unseen cell.
unseen(ix, s) ==
  LET u1 == IF not_seen_or_none(north(ix), s) THEN <<"North">> ELSE << >>
      u2 == IF not_seen_or_none(south(ix), s) THEN Append(u1, "South") ELSE u1
      u3 == IF not_seen_or_none(east(ix), s) THEN Append(u2, "East") ELSE u2
      u4 == IF not_seen_or_none(west(ix), s) THEN Append(u3, "West") ELSE u3
  IN u4

\* The overlay printed on a seen cell, after its RoomView.
overlay_player_first(ix, cur, gl) ==
  IF ix = cur THEN <<PrintCmd(PlayerGlyph)>>
  ELSE IF ix = gl THEN <<PrintCmd(GoalGlyph)>>
  ELSE << >>
overlay(ix, cur, gl) ==
  IF ix = cur /\ ix = gl THEN <<PrintCmd(WonGlyph)>>
  ELSE IF ix = cur THEN <<PrintCmd(PlayerGlyph)>>
  ELSE IF ix = gl THEN <<PrintCmd(GoalGlyph)>>
  ELSE << >>

paint_cell_unseen_goal_marker_only(ix, cur, gl, rms, s) ==
  IF ix = gl /\ ~is_seen(s, ix) THEN <<PrintCmd(GoalGlyph)>>
  ELSE IF is_seen(s, ix) THEN <<RoomViewCmd(rms[ix])>> \o overlay(ix, cur, gl)
  ELSE <<UnseenRoomViewCmd(unseen(ix, s))>>
\* What the paint closure draws for one cell, in order.
paint_cell(ix, cur, gl, rms, s) ==
  LET marker == IF ix = gl THEN <<PrintCmd(GoalGlyph)>> ELSE << >>
  IN IF is_seen(s, ix)
       THEN marker \o <<RoomViewCmd(rms[ix])>> \o overlay(ix, cur, gl)
       ELSE marker \o <<UnseenRoomViewCmd(unseen(ix, s))>>

render(cur, gl, rms, s) == [ix \in Cells |-> paint_cell(ix, cur, gl, rms, s)]

\* The last frame painted: cell -> the draw commands issued for it, in order
\* (nothing before the first draw).
frame ==
  IF renders = 0 THEN [ix \in Cells |-> << >>]
  ELSE render(drawn_ix, goal, rooms, drawn_seen)

----------------------------------------------------------------------------
\* game(): the match on the command read picks an arm.
MoveArms == {"move_north", "move_south", "move_east", "move_west"}

arm_other_moves(ev) ==
  CASE ev = "MoveN" -> "move_north"
    [] ev = "MoveS" -> "move_south"
    [] ev = "MoveE" -> "move_east"
    [] ev = "MoveW" -> "move_west"
    [] ev = "Quit" -> "return"
    [] OTHER -> "move_north"
arm_quit_ignored(ev) ==
  CASE ev = "MoveN" -> "move_north"
    [] ev = "MoveS" -> "move_south"
    [] ev = "MoveE" -> "move_east"
    [] ev = "MoveW" -> "move_west"
    [] OTHER -> "unit"
arm(ev) ==
  CASE ev = "MoveN" -> "move_north"
    [] ev = "MoveS" -> "move_south"
    [] ev = "MoveE" -> "move_east"
    [] ev = "MoveW" -> "move_west"
    [] ev = "Quit" -> "return"
    [] OTHER -> "unit"

run_arm_steps_twice(a, ix, rms) ==
  CASE a = "move_north" -> move_north(move_north(ix, rms), rms)
    [] a = "move_south" -> move_south(move_south(ix, rms), rms)
    [] a = "move_east" -> move_east(move_east(ix, rms), rms)
    [] a = "move_west" -> move_west(move_west(ix, rms), rms)
    [] OTHER -> ix
\* maze.current_ix after the arm has run.
run_arm(a, ix, rms) ==
  CASE a = "move_north" -> move_north(ix, rms)
    [] a = "move_south" -> move_south(ix, rms)
    [] a = "move_east" -> move_east(ix, rms)
    [] a = "move_west" -> move_west(ix, rms)
    [] OTHER -> ix

after_arm_unit_rereads(a) ==
  IF a = "return" THEN "returned" ELSE IF a = "unit" THEN "read" ELSE "mark"
\* Where game() goes after the arm: the Quit arm returns, every other arm
\* falls out of the match to the top of the loop.
after_arm(a) == IF a = "return" THEN "returned" ELSE "mark"

after_check_never_wins(done) == "read"
\* Where game() goes after `if st.is_done()`.
after_check(done) == IF done THEN "returned" ELSE "read"

\* History only: ev is a movement command that the maze blocks at ix.
Blocked(ev, ix, rms) ==
  \/ ev = "MoveN" /\ (north(ix) = << >> \/ "North" \in rms[ix])
  \/ ev = "MoveS" /\ (south(ix) = << >> \/ "South" \in rms[ix])
  \/ ev = "MoveE" /\ (east(ix) = << >> \/ "East" \in rms[ix])
  \/ ev = "MoveW" /\ (west(ix) = << >> \/ "West" \in rms[ix])

Init ==
  /\ current_ix \in Starts
  /\ goal \in Cells
  /\ rooms \in Mazes
  /\ seen = {}
  /\ pc = "mark"
  /\ outcome = "None"
  /\ drawn_ix = current_ix
  /\ drawn_seen = {}
  /\ prev_drawn_ix = current_ix
  /\ prev_drawn_seen = {}
  /\ start = current_ix
  /\ turn = 0
  /\ renders = 0
  /\ nreads = 0
  /\ nmoves = 0
  /\ lastCmd = ""
  /\ lastBlocked = FALSE
  /\ posAtRead = current_ix
  /\ seenAtRead = {}
  /\ rendersSinceRead = 0
  /\ occupied = {current_ix}

\* st.insert_current_ix() at the top of the loop.
InsertCurrentIx ==
  /\ pc = "mark"
  /\ turn < MaxTurns
  /\ seen' = insert_current_ix(seen, current_ix)
  /\ pc' = "render"
  /\ turn' = turn + 1
  /\ UNCHANGED <<current_ix, goal, rooms, outcome, drawn_ix, drawn_seen, prev_drawn_ix,
                 prev_drawn_seen, start, renders,
                 nreads, nmoves, lastCmd, lastBlocked, posAtRead, seenAtRead,
                 rendersSinceRead, occupied>>

Draw_marks_goal_seen ==
  /\ pc = "render"
  /\ seen' = seen \cup {goal}
  /\ drawn_ix' = current_ix
  /\ drawn_seen' = seen
  /\ prev_drawn_ix' = drawn_ix
  /\ prev_drawn_seen' = drawn_seen
  /\ pc' = "check"
  /\ renders' = renders + 1
  /\ rendersSinceRead' = rendersSinceRead + 1
  /\ UNCHANGED <<current_ix, goal, rooms, outcome, start, turn, nreads,
                 nmoves, lastCmd, lastBlocked, posAtRead, seenAtRead, occupied>>
\* terminal.draw(...) succeeds: the frame is painted.
Draw ==
  /\ pc = "render"
  /\ drawn_ix' = current_ix
  /\ drawn_seen' = seen
  /\ prev_drawn_ix' = drawn_ix
  /\ prev_drawn_seen' = drawn_seen
  /\ pc' = "check"
  /\ renders' = renders + 1
  /\ rendersSinceRead' = rendersSinceRead + 1
  /\ UNCHANGED <<current_ix, goal, rooms, seen, outcome, start, turn, nreads,
                 nmoves, lastCmd, lastBlocked, posAtRead, seenAtRead, occupied>>

DrawFail_retries ==
  /\ pc = "render"
  /\ pc' = "render"
  /\ outcome' = "Err"
  /\ UNCHANGED <<current_ix, goal, rooms, seen, drawn_ix, drawn_seen, prev_drawn_ix,
                 prev_drawn_seen, start, turn, renders,
                 nreads, nmoves, lastCmd, lastBlocked, posAtRead, seenAtRead,
                 rendersSinceRead, occupied>>
\* terminal.draw(...)? fails: the error is returned.
DrawFail ==
  /\ pc = "render"
  /\ pc' = "returned"
  /\ outcome' = "Err"
  /\ UNCHANGED <<current_ix, goal, rooms, seen, drawn_ix, drawn_seen, prev_drawn_ix,
                 prev_drawn_seen, start, turn, renders,
                 nreads, nmoves, lastCmd, lastBlocked, posAtRead, seenAtRead,
                 rendersSinceRead, occupied>>

CheckDone_win_without_return ==
  /\ pc = "check"
  /\ pc' = "read"
  /\ outcome' = IF is_done(current_ix, goal) THEN "Win" ELSE outcome
  /\ UNCHANGED <<current_ix, goal, rooms, seen, drawn_ix, drawn_seen, prev_drawn_ix,
                 prev_drawn_seen, start, turn, renders,
                 nreads, nmoves, lastCmd, lastBlocked, posAtRead, seenAtRead,
                 rendersSinceRead, occupied>>
\* if st.is_done() { return Ok(Outcome::Win) }
CheckDone ==
  /\ pc = "check"
  /\ pc' = after_check(is_done(current_ix, goal))
  /\ outcome' = IF pc' = "returned" THEN "Win" ELSE outcome
  /\ UNCHANGED <<current_ix, goal, rooms, seen, drawn_ix, drawn_seen, prev_drawn_ix,
                 prev_drawn_seen, start, turn, renders,
                 nreads, nmoves, lastCmd, lastBlocked, posAtRead, seenAtRead,
                 rendersSinceRead, occupied>>

\* event::read()?.into() yields ev, and the match runs its arm.
ReadEvent ==
  /\ pc = "read"
  /\ \E ev \in MazeEvent :
       /\ current_ix' = run_arm(arm(ev), current_ix, rooms)
       /\ pc' = after_arm(arm(ev))
       /\ outcome' = IF pc' = "returned" THEN "Quit" ELSE outcome
       /\ nreads' = nreads + 1
       /\ nmoves' = IF arm(ev) \in MoveArms THEN nmoves + 1 ELSE nmoves
       /\ lastCmd' = ev
       /\ lastBlocked' = Blocked(ev, current_ix, rooms)
       /\ posAtRead' = current_ix
       /\ seenAtRead' = seen
       /\ rendersSinceRead' = 0
       /\ occupied' = IF pc' = "mark" THEN occupied \cup {current_ix'} ELSE occupied
  /\ UNCHANGED <<goal, rooms, seen, drawn_ix, drawn_seen, prev_drawn_ix,
                 prev_drawn_seen, start, turn, renders>>

\* event::read()? fails: the error is returned.
ReadFail ==
  /\ pc = "read"
  /\ pc' = "returned"
  /\ outcome' = "Err"
  /\ UNCHANGED <<current_ix, goal, rooms, seen, drawn_ix, drawn_seen, prev_drawn_ix,
                 prev_drawn_seen, start, turn, renders,
                 nreads, nmoves, lastCmd, lastBlocked, posAtRead, seenAtRead,
                 rendersSinceRead, occupied>>

Next ==
  \/ InsertCurrentIx
  \/ Draw
  \/ DrawFail
  \/ CheckDone
  \/ ReadEvent
  \/ ReadFail

Spec == Init /\ [][Next]_vars

----------------------------------------------------------------------------
\* Helpers of the properties below.

\* The cells next to ix in direction d, by coordinates: one cell, or none at
\* the grid boundary.
NeighbourCells(ix, d) ==
  LET dx == CASE d = "East" -> 1 [] d = "West" -> -1 [] OTHER -> 0
      dy == CASE d = "South" -> 1 [] d = "North" -> -1 [] OTHER -> 0
  IN {c \in {<<ix[1] + dx, ix[2] + dy>>} : c \in Cells}

\* The elements of a sequence.
Range(q) == {q[i] : i \in 1 .. Len(q)}

\* frame[ix], computed for the one cell.
FrameAt(ix) ==
  IF renders = 0 THEN << >>
  ELSE paint_cell(ix, drawn_ix, goal, rooms, drawn_seen)

\* The frame before the last, for the one cell (nothing before the second
\* draw).
PrevFrameAt(ix) ==
  IF renders < 2 THEN << >>
  ELSE paint_cell(ix, prev_drawn_ix, goal, rooms, prev_drawn_seen)

\* The commands of one kind drawn for a cell in the last frame, in order.
Drawn(ix, kind) == SelectSeq(FrameAt(ix), LAMBDA c : c.op = kind)

\* The hidden-direction lists drawn for a cell in the last frame.
HiddenWalls(ix) ==
  LET u == Drawn(ix, "UnseenRoomView") IN [i \in 1 .. Len(u) |-> u[i].hidden_walls]

\* The glyphs printed on a cell in the last frame, in order.
Glyphs(ix) ==
  LET g == Drawn(ix, "print") IN [i \in 1 .. Len(g) |-> g[i].glyph]

DirectionRank(d) ==
  CASE d = "North" -> 1 [] d = "South" -> 2 [] d = "East" -> 3 [] OTHER -> 4

----------------------------------------------------------------------------
\* C1. Termination: game() returns Win exactly when it returns normally with
\* is_done() true, and Quit exactly when it returns normally after reading
\* Quit; a command is only ever read while is_done() is false (so Quit is
\* read before is_done() becomes true), and the Win follows the render of
\* the turn on which the position reached the goal.
C1_Termination ==
  /\ outcome \in {"Win", "Quit"} => pc = "returned"
  /\ (pc = "returned" /\ outcome # "Err") =>
       /\ outcome \in {"Win", "Quit"}
       /\ outcome = "Win" <=> is_done(current_ix, goal)
       /\ outcome = "Quit" <=> lastCmd = "Quit"
  /\ pc = "read" => ~is_done(current_ix, goal)
  /\ nreads > 0 => ~is_done(posAtRead, goal)
  /\ lastCmd = "Quit" => outcome = "Quit"
  /\ outcome = "Win" => drawn_ix = current_ix /\ renders = turn

C1_Witness ==
  /\ outcome = "Win"
  /\ nmoves > 0
  /\ current_ix # start

\* C2. Monotonicity: no step removes a cell from the Visited Set.
C2_Monotonic == [][seen \subseteq seen']_vars

\* Three cells visited, then an ignored input and the turn after it.
C2_Witness ==
  /\ Cardinality(seen) >= 3
  /\ lastCmd = "Other"
  /\ pc = "check"
  /\ is_seen(seen, start)
  /\ current_ix # start

\* C3. Edge-knowledge: in every frame (each is the last frame when its turn
\* reaches the win check), for every unseen cell and every direction d, d is
\* in the hidden-direction set drawn for the cell iff the cell has no
\* neighbour in direction d or that neighbour is not in the Visited Set; the
\* set is drawn in the order North, South, East, West without repetition.
C3_EdgeKnowledge ==
  pc = "check" =>
    \A ix \in Cells \ drawn_seen :
      LET hw == HiddenWalls(ix)
          h == hw[1]
          free == {d \in Directions : NeighbourCells(ix, d) \cap drawn_seen = {}}
      IN /\ Len(hw) = 1
         /\ \A d \in Directions : d \in Range(h) <=> d \in free
         /\ \A j, k \in 1 .. Len(h) :
              j < k => DirectionRank(h[j]) < DirectionRank(h[k])
         /\ free = Directions => Range(h) = Directions
         /\ \A D \in Directions :
              free = Directions \ {D} => Range(h) = Directions \ {D}

\* An inner cell, unseen, with exactly its western neighbour seen.
C3_Witness ==
  /\ renders > 0
  /\ \E ix \in Cells \ drawn_seen :
       /\ \A d \in Directions : NeighbourCells(ix, d) # {}
       /\ NeighbourCells(ix, "West") \subseteq drawn_seen
       /\ HiddenWalls(ix) = << <<"North", "South", "East">> >>

\* C4. Turn order: when a turn's frame is painted and when its win check is
\* evaluated, the current position is in the Visited Set; every frame was
\* painted with the position it shows and the starting position in the
\* Visited Set, and draws the room of that position in full.
C4_TurnOrder ==
  /\ pc \in {"render", "check"} => is_seen(seen, current_ix)
  /\ (pc = "render" /\ renders = 0) => is_seen(seen, start)
  /\ renders > 0 =>
       /\ is_seen(drawn_seen, start)
       /\ is_seen(drawn_seen, drawn_ix)
       /\ Len(Drawn(drawn_ix, "RoomView")) = 1
       /\ Len(Drawn(drawn_ix, "UnseenRoomView")) = 0

\* The first turn of a session whose start is its goal, at the win check.
C4_Witness ==
  /\ start = goal
  /\ pc = "check"
  /\ renders = 1
  /\ turn = 1

\* C5. When a frame is painted, the Visited Set is exactly the set of cells
\* the position held at the start of a turn so far.
C5_VisitedIsOccupied ==
  /\ pc \in {"render", "check", "read"} => seen = occupied
  /\ pc \in {"check", "read"} => drawn_seen = occupied

C5_Witness ==
  /\ pc = "check"
  /\ Cardinality(occupied) >= 3
  /\ drawn_seen = occupied
  /\ lastBlocked

\* C6. Scenario B generalised: game() returns Win on the first turn on which
\* the position is the goal: a command is never read with the position on
\* the goal, and when Win is returned the last frame is that turn's frame,
\* painted with the goal cell seen, its room drawn in full and the "won"
\* glyph printed on it last.
C6_WinOnFirstArrival ==
  /\ pc = "read" => current_ix # goal
  /\ nreads > 0 => posAtRead # goal
  /\ outcome = "Win" =>
       /\ current_ix = goal
       /\ drawn_ix = goal
       /\ drawn_seen = seen
       /\ is_seen(drawn_seen, goal)
       /\ renders = turn
       /\ nreads = turn - 1
       /\ Len(Drawn(goal, "RoomView")) = 1
       /\ Len(Glyphs(goal)) > 0
       /\ Glyphs(goal)[Len(Glyphs(goal))] = WonGlyph

\* Scenario B: 3x3 without walls, (0,0) to (2,2) by East, South, South, East.
C6_Witness ==
  /\ outcome = "Win"
  /\ rooms = OpenMaze
  /\ start = <<0, 0>>
  /\ goal = <<2, 2>>
  /\ seen = {<<0, 0>>, <<1, 0>>, <<1, 1>>, <<1, 2>>, <<2, 2>>}
  /\ nreads = 4
  /\ nmoves = 4
  /\ lastCmd = "MoveE"

\* C7. Scenario C: when the first command read is Quit, game() returns Quit
\* after exactly one frame, with the Visited Set {start}, the position still
\* the start and no move_* call made on the maze.
C7_QuitFirst ==
  (nreads = 1 /\ lastCmd = "Quit") =>
    /\ pc = "returned"
    /\ outcome = "Quit"
    /\ renders = 1
    /\ turn = 1
    /\ seen = {start}
    /\ current_ix = start
    /\ start # goal
    /\ nmoves = 0

C7_Witness ==
  /\ nreads = 1
  /\ lastCmd = "Quit"
  /\ outcome = "Quit"
  /\ pc = "returned"

\* C8. Scenario D: after a movement command that a wall or the boundary
\* blocks, the position is the one the command was read at and the Visited
\* Set the one it was read with, also after the next turn's mark-seen; the
\* command yields no outcome and no error, and the loop goes on to the next
\* turn.
C8_BlockedMove ==
  lastBlocked =>
    /\ current_ix = posAtRead
    /\ seen = seenAtRead
    /\ is_seen(seenAtRead, posAtRead)
    /\ outcome \notin {"Win", "Quit"}
    /\ pc \in {"mark", "render"} => outcome = "None"
    /\ pc = "returned" => outcome = "Err"

\* A step south blocked by an inner wall, after the next turn's mark-seen.
C8_Witness ==
  /\ lastBlocked
  /\ lastCmd = "MoveS"
  /\ south(current_ix) # << >>
  /\ pc = "render"
  /\ Cardinality(seen) >= 2
  /\ outcome = "None"

\* C9. A step that reads an Other command leaves the maze's current
\* position, goal and rooms and the Visited Set unchanged, yields no outcome
\* and leaves the loop active, at the top of its next iteration.
C9_OtherIgnored ==
  [][(nreads' = nreads + 1 /\ lastCmd' = "Other") =>
       /\ current_ix' = current_ix
       /\ goal' = goal
       /\ rooms' = rooms
       /\ seen' = seen
       /\ nmoves' = nmoves
       /\ outcome' = "None"
       /\ pc' = "mark"]_vars

\* An ignored input read away from the start, where every step is possible
\* in some direction.
C9_Witness ==
  /\ lastCmd = "Other"
  /\ pc = "mark"
  /\ nreads >= 2
  /\ current_ix # start
  /\ outcome = "None"

\* C10, as stated: no frame is painted between reading an Other command and
\* reading the next command.
C10_NoRenderAfterOther ==
  (lastCmd = "Other" /\ nreads > 0) => rendersSinceRead = 0

\* C10, amended: after an Other command the loop runs its next turn in full:
\* exactly one frame is painted between reading the ignored command and
\* reading the next command, from the same position and Visited Set.
C10_OneRenderAfterOther ==
  (lastCmd = "Other" /\ pc = "read") =>
    /\ rendersSinceRead = 1
    /\ drawn_ix = posAtRead
    /\ drawn_seen = seenAtRead
    /\ current_ix = posAtRead
    /\ seen = seenAtRead

C10_Witness ==
  /\ lastCmd = "Other"
  /\ pc = "read"
  /\ rendersSinceRead = 1
  /\ nreads >= 1

\* C11. After an Other command the next turn paints a frame, and that frame
\* is identical, cell by cell, to the frame before it: the maze and the
\* Visited Set it is painted from are those of the previous frame.
C11_SameFrameAfterOther ==
  (lastCmd = "Other" /\ pc \in {"check", "read"}) =>
    /\ rendersSinceRead = 1
    /\ renders >= 2
    /\ drawn_ix = prev_drawn_ix
    /\ drawn_seen = prev_drawn_seen
    /\ \A ix \in Cells : FrameAt(ix) = PrevFrameAt(ix)

\* The frame after an ignored input, away from the start.
C11_Witness ==
  /\ lastCmd = "Other"
  /\ pc = "check"
  /\ renders >= 3
  /\ Cardinality(drawn_seen) >= 2
  /\ FrameAt(current_ix) = PrevFrameAt(current_ix)
  /\ FrameAt(current_ix) # << >>

\* C12. A failure of terminal.draw or event::read ends the session at once,
\* with neither Win nor Quit: the failing step changes nothing but the
\* return, and no step follows it (no retry, render, read or move), also
\* when the draw fails on a turn on which is_done() is true.
C12_FatalError ==
  /\ [](outcome = "Err" => pc = "returned")
  /\ [][outcome # "Err"]_vars
  /\ [][outcome' = "Err" =>
          /\ pc \in {"render", "read"}
          /\ pc' = "returned"
          /\ UNCHANGED <<current_ix, goal, rooms, seen, drawn_ix, drawn_seen,
                         turn, renders, nreads, nmoves, lastCmd>>]_vars

\* A draw that failed on the turn on which the position reached the goal.
C12_Witness ==
  /\ outcome = "Err"
  /\ pc = "returned"
  /\ is_done(current_ix, goal)
  /\ turn = renders + 1
  /\ nmoves > 0

\* C13. game() returns at most once: it has returned exactly when it has an
\* outcome, a return without error is Win or Quit (one value, so never
\* both), and after a return no step follows: no mark-seen, render, read or
\* move.
C13_TerminalOutcomes ==
  /\ [](pc = "returned" <=> outcome # "None")
  /\ [](outcome \in {"None", "Win", "Quit", "Err"})
  /\ [][pc # "returned" /\ outcome = "None"]_vars

C13_Witness ==
  /\ outcome = "Quit"
  /\ pc = "returned"
  /\ nreads >= 2
  /\ renders = nreads

\* C14, as stated: in every frame an unseen goal cell is drawn with only a
\* goal marker glyph: no full room view and no blank room view.
C14_UnseenGoalMarkerOnly ==
  (pc = "check" /\ ~is_seen(drawn_seen, goal)) =>
    /\ Glyphs(goal) = <<GoalGlyph>>
    /\ Len(Drawn(goal, "RoomView")) = 0
    /\ Len(Drawn(goal, "UnseenRoomView")) = 0

\* C14, amended: in every frame an unseen goal cell is drawn with the goal
\* marker glyph and then a blank room view with its hidden-direction set; no
\* full room view is drawn for it.
C14_UnseenGoalMarkerAndBlank ==
  (pc = "check" /\ ~is_seen(drawn_seen, goal)) =>
    /\ Len(FrameAt(goal)) = 2
    /\ FrameAt(goal)[1] = PrintCmd(GoalGlyph)
    /\ FrameAt(goal)[2].op = "UnseenRoomView"
    /\ Range(FrameAt(goal)[2].hidden_walls) =
         {d \in Directions : NeighbourCells(goal, d) \cap drawn_seen = {}}
    /\ Len(Drawn(goal, "RoomView")) = 0

\* An unseen goal next to a visited cell.
C14_Witness ==
  /\ pc = "check"
  /\ ~is_seen(drawn_seen, goal)
  /\ \E d \in Directions : NeighbourCells(goal, d) \cap drawn_seen # {}
  /\ Len(Drawn(goal, "UnseenRoomView")) = 1

\* C15, as stated: in every frame a seen cell is drawn as a full room with at
\* most one glyph printed: won on the current position when it is the goal,
\* else player on the current position, else goal on the goal, else none.
C15_SeenOneGlyph ==
  pc = "check" =>
    \A ix \in drawn_seen :
      /\ Len(Drawn(ix, "RoomView")) = 1
      /\ Len(Drawn(ix, "UnseenRoomView")) = 0
      /\ Glyphs(ix) =
           IF ix = drawn_ix /\ ix = goal THEN <<WonGlyph>>
           ELSE IF ix = drawn_ix THEN <<PlayerGlyph>>
           ELSE IF ix = goal THEN <<GoalGlyph>>
           ELSE << >>

\* C15, amended: in every frame a seen cell is drawn as a full room, followed
\* by at most one glyph chosen in that precedence (won, player, goal, none);
\* a seen goal cell has the goal glyph printed before its room as well, so it
\* gets two prints, the last of which is the glyph of the precedence.
C15_SeenOverlayAfterGoalMarker ==
  pc = "check" =>
    \A ix \in drawn_seen :
      FrameAt(ix) =
        (IF ix = goal THEN <<PrintCmd(GoalGlyph)>> ELSE << >>)
          \o <<RoomViewCmd(rooms[ix])>>
          \o (IF ix = drawn_ix /\ ix = goal THEN <<PrintCmd(WonGlyph)>>
              ELSE IF ix = drawn_ix THEN <<PrintCmd(PlayerGlyph)>>
              ELSE IF ix = goal THEN <<PrintCmd(GoalGlyph)>>
              ELSE << >>)

\* The winning frame after a walk: the goal cell carries goal and won, the
\* cells left behind carry none.
C15_Witness ==
  /\ pc = "check"
  /\ drawn_ix = goal
  /\ Cardinality(drawn_seen) >= 3
  /\ Glyphs(goal) = <<GoalGlyph, WonGlyph>>
  /\ Glyphs(start) = << >>

\* C16. Scenario A: on the first frame of the maze without walls, start (0,0)
\* and goal (2,2), the start cell alone is drawn as a full room, with the
\* player glyph; every other cell, the goal included, is drawn as a blank
\* room: the two cells next to the start hide all directions but the one
\* towards the start, every other cell hides all four.
C16_ScenarioA ==
  (/\ pc = "check"
   /\ renders = 1
   /\ rooms = OpenMaze
   /\ start = <<0, 0>>
   /\ goal = <<2, 2>>) =>
    /\ FrameAt(start) = <<RoomViewCmd(OpenMaze[start]), PrintCmd(PlayerGlyph)>>
    /\ Cardinality(Cells \ {start}) = N_ROWS * N_COLS - 1
    /\ \A ix \in Cells \ {start} :
         /\ Len(Drawn(ix, "RoomView")) = 0
         /\ HiddenWalls(ix) =
              << IF ix = <<1, 0>> THEN <<"North", "South", "East">>
                 ELSE IF ix = <<0, 1>> THEN <<"South", "East", "West">>
                 ELSE <<"North", "South", "East", "West">> >>
         /\ Glyphs(ix) = IF ix = goal THEN <<GoalGlyph>> ELSE << >>

C16_Witness ==
  /\ pc = "check"
  /\ renders = 1
  /\ rooms = OpenMaze
  /\ start = <<0, 0>>
  /\ goal = <<2, 2>>
  /\ HiddenWalls(<<1, 0>>) = << <<"North", "South", "East">> >>
  /\ HiddenWalls(<<2, 2>>) = << <<"North", "South", "East", "West">> >>

\* C17. Turn protocol: every iteration marks the position seen, then
\* paints, then evaluates the win predicate, then reads one command, then
\* applies it.  Each turn has one mark-seen, one frame and at most one read;
\* when is_done() is true at the win check game() returns Win and reads
\* nothing; a movement command makes exactly one move_* call, the one of
\* its direction, and the loop goes back to mark-seen.
C17_TurnProtocol ==
  /\ [](/\ pc = "mark" => turn = renders /\ renders = nreads
        /\ pc = "render" => turn = renders + 1 /\ renders = nreads
        /\ pc \in {"check", "read"} => turn = renders /\ renders = nreads + 1)
  /\ [][/\ pc = "mark" =>
             /\ pc' = "render"
             /\ turn' = turn + 1
             /\ seen' = seen \cup {current_ix}
             /\ UNCHANGED <<current_ix, renders, nreads, nmoves, outcome>>
        /\ pc = "render" =>
             /\ pc' \in {"check", "returned"}
             /\ pc' = "check" => renders' = renders + 1 /\ outcome' = "None"
             /\ pc' = "returned" => renders' = renders /\ outcome' = "Err"
             /\ UNCHANGED <<current_ix, seen, turn, nreads, nmoves>>
        /\ pc = "check" =>
             /\ pc' = IF current_ix = goal THEN "returned" ELSE "read"
             /\ outcome' = IF current_ix = goal THEN "Win" ELSE "None"
             /\ UNCHANGED <<current_ix, seen, turn, renders, nreads, nmoves>>
        /\ pc = "read" =>
             /\ UNCHANGED <<seen, turn, renders>>
             /\ \/ /\ nreads' = nreads
                   /\ pc' = "returned"
                   /\ outcome' = "Err"
                   /\ UNCHANGED <<current_ix, nmoves>>
                \/ /\ nreads' = nreads + 1
                   /\ lastCmd' = "Quit"
                   /\ pc' = "returned"
                   /\ outcome' = "Quit"
                   /\ UNCHANGED <<current_ix, nmoves>>
                \/ /\ nreads' = nreads + 1
                   /\ lastCmd' = "Other"
                   /\ pc' = "mark"
                   /\ UNCHANGED <<current_ix, nmoves, outcome>>
                \/ /\ nreads' = nreads + 1
                   /\ lastCmd' \in MoveEvents
                   /\ pc' = "mark"
                   /\ nmoves' = nmoves + 1
                   /\ current_ix' =
                        CASE lastCmd' = "MoveN" -> maze_move_north(current_ix, rooms)
                          [] lastCmd' = "MoveS" -> maze_move_south(current_ix, rooms)
                          [] lastCmd' = "MoveE" -> maze_move_east(current_ix, rooms)
                          [] OTHER -> maze_move_west(current_ix, rooms)
                   /\ UNCHANGED outcome]_vars

\* The third turn's mark-seen, after a step east.
C17_Witness ==
  /\ pc = "render"
  /\ turn >= 3
  /\ lastCmd = "MoveE"
  /\ ~lastBlocked
  /\ nmoves >= 2
  /\ nreads = turn - 1

\* C18. A step that paints a frame leaves the maze (current position, goal,
\* rooms) and the Visited Set unchanged; a mark-seen step leaves the maze
\* unchanged.
C18_RenderReadOnly ==
  [][/\ renders' # renders =>
          UNCHANGED <<current_ix, goal, rooms, seen, outcome>>
     /\ turn' # turn =>
          UNCHANGED <<current_ix, goal, rooms, outcome>>]_vars

\* A frame painted with the goal still unseen, after a mark-seen that grew
\* the Visited Set.
C18_Witness ==
  /\ pc = "check"
  /\ renders >= 2
  /\ seen = drawn_seen
  /\ seen # seenAtRead
  /\ ~is_seen(seen, goal)
  /\ current_ix = drawn_ix

\* C19. Idempotent marking: a mark-seen of a position already in the Visited
\* Set leaves the set unchanged, and so does inserting any index the set
\* holds.
C19_IdempotentMarking ==
  /\ [](\A ix \in seen : insert_current_ix(seen, ix) = seen)
  /\ [][/\ (turn' = turn + 1 /\ is_seen(seen, current_ix)) => seen' = seen
        /\ (turn' = turn + 1 /\ nreads > 0 /\ current_ix = posAtRead) =>
             seen' = seen]_vars

\* A mark-seen after a blocked move, two cells already visited.
C19_Witness ==
  /\ pc = "render"
  /\ lastCmd \in MoveEvents
  /\ lastBlocked
  /\ current_ix = posAtRead
  /\ is_seen(seenAtRead, current_ix)
  /\ seen = seenAtRead
  /\ Cardinality(seen) >= 2

\* Every visited cell but the start has a visited cardinal neighbour.
Connected(s) ==
  \A c \in s \ {start} : \E d \in Directions : NeighbourCells(c, d) \cap s # {}

\* C20, as stated: in every reachable state the Visited Set contains the
\* start, is connected under 4-adjacency and has at most one cell per turn
\* and at most one plus the number of movement commands read; no step adds
\* more than one cell.
C20_StartConnectedBounded ==
  /\ [](/\ is_seen(seen, start)
        /\ Connected(seen)
        /\ Cardinality(seen) <= turn
        /\ Cardinality(seen) <= 1 + nmoves)
  /\ [][Cardinality(seen') <= Cardinality(seen) + 1]_vars

\* C20, amended: the same, the start being in the Visited Set from the first
\* mark-seen on (the set is empty between the construction of the session
\* and the first mark-seen).
C20_StartConnectedBoundedOnceMarked ==
  /\ [](/\ turn > 0 => is_seen(seen, start)
        /\ turn = 0 => seen = {}
        /\ Connected(seen)
        /\ Cardinality(seen) <= turn
        /\ Cardinality(seen) <= 1 + nmoves)
  /\ [][Cardinality(seen') <= Cardinality(seen) + 1]_vars

\* A walk that visited a new cell with every move.
C20_Witness ==
  /\ Cardinality(seen) = 1 + nmoves
  /\ nmoves >= 3
  /\ is_seen(seen, start)
  /\ pc = "check"

=============================================================================
